---- MODULE Spec2Model ----
(***************************************************************************)
(* Model of the hype-cycle analyzer's orchestration core:                  *)
(*   backend/app/analyzers/hype_classifier.py  (HypeCycleClassifier)       *)
(*   backend/app/analyzers/deepseek.py         (DeepSeekAnalyzer)          *)
(*                                                                         *)
(* Three specifications share the module:                                  *)
(*   Spec       one classify() request, from the cache lookup to its       *)
(*              terminal outcome, the five collectors interleaved with     *)
(*              the batch deadline;                                        *)
(*   SpecParse  DeepSeekAnalyzer._call_deepseek applied to one model       *)
(*              completion (a sequence of lexical tokens);                 *)
(*   SpecNiche  HypeCycleClassifier._detect_niche applied to one           *)
(*              collector-result map.                                      *)
(***************************************************************************)
EXTENDS Integers, Sequences, FiniteSets, TLC

VARIABLES
    \* ---- Spec: one classify() request
    pc,                 \* position of the request in classify()
    api_key,            \* settings.deepseek_api_key is set (non-empty)
    db,                 \* rows of table analyses, oldest first
    now,                \* the clock, in hours
    lookup,             \* what _check_cache did: none | miss | error | hit | undecodable
    task,               \* first-pass collector tasks: source -> [st, val], st one of
                        \* idle | pending | returned | raised | cancelled
    collector_results,  \* source -> result | NULL
    collector_errors,   \* list of error records
    first_pass,         \* collector_results as _run_collectors returned them
    first_errors,       \* the error list as _run_collectors returned it
    termgen,            \* term generation of the expansion: none | failed | generated
    rerun,              \* re-run collect() calls of the expansion: source -> [st, val]
    is_niche,           \* outcome of _detect_niche: "unset" | "yes" | "no"
    expanded_terms,     \* list returned by _expand_query_and_rerun
    query_expansion_applied,
    aidx,               \* index into source_names of analyze()'s loop
    per_source_analyses,\* source -> analysis | NOANALYSIS
    analysis_errors,    \* list `errors` of analyze()
    final_analysis,     \* what _synthesize_analyses returned | NOANALYSIS
    calls,              \* counters of the calls the request has made
    outcome,            \* what classify() did: [kind |-> none | result | error, ...]
    http_status,        \* status of the endpoint's response, 0 while there is none
    relookup,           \* what the next request's _check_cache returned
    \* ---- SpecParse
    content,            \* the model's completion text, as tokens
    core,               \* the JSON text the completion was built around
    wrap,               \* how: "bare" | "fenced" | "prose_fenced" | "prose_blocks"
    parsed,             \* result of _call_deepseek on it
    \* ---- SpecNiche
    niche_in,           \* argument of _detect_niche
    niche_out,          \* its return value: "unset" | "yes" | "no"
    \* ---- SpecTerms
    term_keyword,       \* argument of generate_expanded_terms
    raw_terms,          \* the "terms" list of the model's completion
    terms_out,          \* what generate_expanded_terms did with it
    \* ---- SpecCache: concurrent requests on one table
    requests,           \* request -> [st, keyword, seen]
    analyses,           \* committed rows of table analyses, in id order
    writer,             \* the request whose connection holds the write lock, or 0
    \* ---- SpecFinance: the FinanceCollector instances of several requests
    finance,            \* request -> [st, keyword, tickers, asked, read_from]
    ticker_cache        \* instance -> its _ticker_cache: keyword -> tickers

pipelineVars == <<pc, api_key, db, now, lookup, task, collector_results, collector_errors,
                  first_pass, first_errors, termgen, rerun, is_niche, expanded_terms,
                  query_expansion_applied, aidx, per_source_analyses, analysis_errors,
                  final_analysis, calls, outcome, http_status, relookup>>
parseVars == <<content, core, wrap, parsed>>
nicheVars == <<niche_in, niche_out>>
termsVars == <<term_keyword, raw_terms, terms_out>>
cacheVars == <<requests, analyses, writer>>
financeVars == <<finance, ticker_cache>>
vars == <<pipelineVars, parseVars, nicheVars, termsVars, cacheVars, financeVars>>

(***************************************************************************)
(* Bounds of the model.                                                    *)
(***************************************************************************)
\* longest reasoning text (in tokens) of a generated completion
MaxReason == 2
\* longest prose (in tokens) after a closing fence
MaxProse == 2

(***************************************************************************)
(* Program constants.                                                      *)
(***************************************************************************)
MINIMUM_SOURCES_REQUIRED == 3
MIN_SOURCE_ANALYSES == 3
NICHE_MENTIONS_30D == 50
NICHE_MENTIONS_TOTAL == 100
CACHE_TTL_HOURS == 24

Sources == <<"social", "papers", "patents", "news", "finance">>
SourceSet == {Sources[i] : i \in 1..Len(Sources)}

VALID_PHASES == {"innovation_trigger", "peak", "trough", "slope", "plateau"}

(***************************************************************************)
(* Completions as token sequences.                                         *)
(*   "F"  a run of three backticks          "j"  the four letters json     *)
(*   "w"  whitespace                        "x"  any other text            *)
(*   "{" "}"  the braces of a JSON object                                  *)
(*   "ph_*"   the member  "phase": <value>                                 *)
(*   "cf_*"   the member  "confidence": <value>   (hundredths)             *)
(*   "r<" .. ">"  the member "reasoning": "<text>", text made of F j w x   *)
(*   "n"  a bare JSON number, "L" the JSON array                           *)
(*        ["phase","confidence","reasoning"]                               *)
(***************************************************************************)
PhaseToks == {"ph_peak", "ph_slope", "ph_bogus", "ph_insufficient", "ph_null"}
ConfToks == {"cf_0", "cf_75", "cf_100", "cf_150", "cf_neg", "cf_true", "cf_str"}
TextToks == {"F", "j", "w", "x"}

ABSENT == [t |-> "absent", v |-> 0, s |-> ""]

PhaseVal(tok) ==
    CASE tok = "ph_peak"  -> [t |-> "str", v |-> 0, s |-> "peak"]
      [] tok = "ph_slope" -> [t |-> "str", v |-> 0, s |-> "slope"]
      [] tok = "ph_bogus" -> [t |-> "str", v |-> 0, s |-> "bogus"]
      [] tok = "ph_insufficient" -> [t |-> "str", v |-> 0, s |-> "Insufficient data"]
      [] OTHER            -> [t |-> "null", v |-> 0, s |-> ""]

ConfVal(tok) ==
    CASE tok = "cf_0"    -> [t |-> "num", v |-> 0, s |-> ""]
      [] tok = "cf_75"   -> [t |-> "num", v |-> 75, s |-> ""]
      [] tok = "cf_100"  -> [t |-> "num", v |-> 100, s |-> ""]
      [] tok = "cf_150"  -> [t |-> "num", v |-> 150, s |-> ""]
      [] tok = "cf_neg"  -> [t |-> "num", v |-> -10, s |-> ""]
      [] tok = "cf_true" -> [t |-> "bool", v |-> 100, s |-> ""]
      [] OTHER           -> [t |-> "str", v |-> 0, s |-> "high"]

\* str.strip(): whitespace removed at both ends
RECURSIVE LStrip(_)
LStrip(s) == IF s # <<>> /\ Head(s) = "w" THEN LStrip(Tail(s)) ELSE s

RECURSIVE RStrip(_)
RStrip(s) ==
    IF s # <<>> /\ s[Len(s)] = "w" THEN RStrip(SubSeq(s, 1, Len(s) - 1)) ELSE s

Strip(s) == RStrip(LStrip(s))

\* index of the first tok in s at or after position i, 0 when there is none
RECURSIVE IndexFrom(_, _, _)
IndexFrom(s, tok, i) ==
    IF i > Len(s) THEN 0
    ELSE IF s[i] = tok THEN i
    ELSE IndexFrom(s, tok, i + 1)

\* content.split("```")[1] for a content that starts with a fence
SplitFenceSecond(s) ==
    LET nxt == IndexFrom(s, "F", 2)
    IN  IF nxt = 0 THEN SubSeq(s, 2, Len(s)) ELSE SubSeq(s, 2, nxt - 1)

\* lines 414-419: strip, take the first fenced block, drop a json tag, strip
StripMarkdown(s) ==
    LET c1 == Strip(s)
        c2 == IF c1 # <<>> /\ Head(c1) = "F" THEN SplitFenceSecond(c1) ELSE c1
        c3 == IF c1 # <<>> /\ Head(c1) = "F" /\ c2 # <<>> /\ Head(c2) = "j"
              THEN Tail(c2) ELSE c2
    IN  Strip(c3)

EmptyObject == [phase |-> ABSENT, confidence |-> ABSENT,
                has_reasoning |-> FALSE, reasoning |-> <<>>]

JsonError == [ok |-> FALSE, kind |-> "error", obj |-> EmptyObject]

\* the members between the braces; a later duplicate replaces an earlier one
RECURSIVE ParseMembers(_, _, _)
ParseMembers(body, i, obj) ==
    IF i > Len(body) THEN [ok |-> TRUE, kind |-> "object", obj |-> obj]
    ELSE IF body[i] = "w" THEN ParseMembers(body, i + 1, obj)
    ELSE IF body[i] \in PhaseToks
        THEN ParseMembers(body, i + 1, [obj EXCEPT !.phase = PhaseVal(body[i])])
    ELSE IF body[i] \in ConfToks
        THEN ParseMembers(body, i + 1, [obj EXCEPT !.confidence = ConfVal(body[i])])
    ELSE IF body[i] = "r<"
        THEN LET close == IndexFrom(body, ">", i + 1)
             IN  IF close = 0 \/ \E k \in (i + 1)..(close - 1) : body[k] \notin TextToks
                 THEN JsonError
                 ELSE ParseMembers(body, close + 1,
                          [obj EXCEPT !.has_reasoning = TRUE,
                                      !.reasoning = SubSeq(body, i + 1, close - 1)])
    ELSE JsonError

\* json.loads: surrounding whitespace is allowed, anything else is an error
JsonLoads(s) ==
    LET c == Strip(s)
    IN  IF c = <<"n">> THEN [ok |-> TRUE, kind |-> "number", obj |-> EmptyObject]
        ELSE IF c = <<"L">> THEN [ok |-> TRUE, kind |-> "array", obj |-> EmptyObject]
        ELSE IF Len(c) < 2 \/ c[1] # "{" \/ c[Len(c)] # "}" THEN JsonError
        ELSE ParseMembers(SubSeq(c, 2, Len(c) - 1), 1, EmptyObject)

\* an exception of _call_deepseek; quote is the text of the model that the
\* exception's message repeats ("" when it repeats none)
FailureQuoting(kind, quote) == [ok |-> FALSE, err |-> kind, val |-> EmptyObject, quote |-> quote]
Failure(kind) == FailureQuoting(kind, "")
Returned(obj) == [ok |-> TRUE, err |-> "none", val |-> obj, quote |-> ""]

PhaseValidAnyString(p) == p.t = "str"

\* isinstance(confidence, (int, float)): bool is a subclass of int
IsIntOrFloat(c) == c.t \in {"num", "bool"}

\* 0 <= confidence <= 1
ConfidenceInRange(c) == 0 <= c.v /\ c.v <= 100

PhaseValid(p) == p.t = "str" /\ p.s \in VALID_PHASES

\* lines 425-438: the checks on the parsed value, in the code's order
Validate(j) ==
    IF j.kind = "number" THEN Failure("type_error")      \* 'phase' in 5
    ELSE IF j.kind = "array" THEN Failure("type_error")  \* parsed["phase"] on a list
    ELSE IF j.obj.phase = ABSENT \/ j.obj.confidence = ABSENT \/ ~j.obj.has_reasoning
        THEN Failure("missing_fields")
    ELSE IF ~PhaseValid(j.obj.phase)
        THEN FailureQuoting("invalid_phase", j.obj.phase.s)       \* f"Invalid phase '{...}'"
    ELSE IF ~IsIntOrFloat(j.obj.confidence) \/ ~ConfidenceInRange(j.obj.confidence)
        THEN FailureQuoting("confidence_range", j.obj.confidence.s)  \* f"... Got: {confidence}"
    ELSE Returned(j.obj)

\* lines 413-438 of _call_deepseek, on the content of a 2xx response
ParseContent(c) ==
    LET j == JsonLoads(StripMarkdown(c))
    IN  IF ~j.ok THEN Failure("json_decode") ELSE Validate(j)

(***************************************************************************)
(* Completions the model may send: a JSON value, bare or fenced.           *)
(***************************************************************************)
SeqsUpTo(S, n) == UNION {[1..k -> S] : k \in 0..n}

Member(tokset) == {<<>>} \cup {<<t>> : t \in tokset}

ReasonMember == {<<>>} \cup {<<"r<">> \o r \o <<">">> : r \in SeqsUpTo({"x", "F", "j"}, MaxReason)}

JsonTexts ==
    {<<"{">> \o p \o c \o r \o <<"}">> :
        p \in Member(PhaseToks), c \in Member(ConfToks), r \in ReasonMember}
    \cup {<<"n">>, <<"L">>, <<"x">>, <<"{", "ph_peak", "cf_75">>}

FenceOpen == {<<"F">>, <<"F", "j">>, <<"F", "w">>, <<"F", "j", "w">>, <<"w", "F", "j", "w">>}
FenceClose == {<<"F">> \o t : t \in SeqsUpTo({"x", "F"}, MaxProse)}
                 \cup {<<"w", "F">>, <<"w", "F", "w", "x">>}

Fenced(open, text, close) == open \o text \o close

\* a later fenced block of the completion, holding an object that is no
\* analysis
SecondBlock == Fenced(<<"F", "j", "w">>, <<"{", "}">>, <<"w", "F">>)

NoParse == FailureQuoting("unset", "")

\* the head of str(e) for the exceptions of lines 413-436: json.loads raises
\* JSONDecodeError with the json module's text, the checks raise ValueError
\* with the texts of lines 427, 431 and 436
ParseErrorText(kind) ==
    CASE kind = "json_decode" -> "Expecting value"
      [] kind = "missing_fields" -> "DeepSeek response missing required fields"
      [] kind = "invalid_phase" -> "Invalid phase"
      [] kind = "confidence_range" -> "Confidence must be float between 0-1"
      [] kind = "type_error" -> "argument of type is not iterable"
      [] OTHER -> ""


(***************************************************************************)
(* SpecParse: _call_deepseek on one completion.                            *)
(***************************************************************************)
\* lines 402-438 of _call_deepseek: a transport or status failure raises,
\* otherwise the content is parsed and validated
CallDeepseek(reply) ==
    IF ~reply.http_ok THEN Failure("http_error") ELSE ParseContent(reply.content)

ParseCall ==
    /\ parsed = NoParse
    /\ parsed' = CallDeepseek([http_ok |-> TRUE, content |-> content])
    /\ UNCHANGED <<content, core, wrap, pipelineVars, nicheVars, termsVars, cacheVars, financeVars>>

(***************************************************************************)
(* Collector results and errors.                                           *)
(***************************************************************************)
NULL == [kind |-> "null", src |-> "", pass |-> 0, m30 |-> 0, mtot |-> 0, errs |-> 0]

\* a collector's dict: pass 1 is collect(keyword), pass 2 the expanded re-run;
\* m30 / mtot are mentions_30d / mentions_total of the social result, errs the
\* length of its "errors" list
Data(src, pass, m30, mtot) ==
    [kind |-> "data", src |-> src, pass |-> pass, m30 |-> m30, mtot |-> mtot, errs |-> 0]

\* _error_response of a collector (social.py lines 330-367): the dict a
\* collector returns when its provider failed altogether, every metric zero
\* or "unknown" and the error in "errors"
ErrorResponse(src) == [Data(src, 1, 0, 0) EXCEPT !.errs = 1]

TruthyAlways(v) == TRUE

\* Python truthiness of a collector result: None is falsy, a collector's dict
\* always has keys
Truthy(v) == v # NULL

Err(kind, source, msg) == [kind |-> kind, source |-> source, msg |-> msg]

SuccessfulWithoutErrors(results) ==
    {s \in SourceSet : results[s] # NULL /\ results[s].errs = 0}

\* successful = [r for r in collector_results.values() if r is not None]
Successful(results) == {s \in SourceSet : results[s] # NULL}

AllNull == [s \in SourceSet |-> NULL]

\* lines 225-235: one entry per source in the order of the collectors dict;
\* outs[s] = [exc, msg, val] is what gather returned for s
CollectedResultsFailFast(outs) ==
    IF \E s \in SourceSet : outs[s].exc THEN [s \in SourceSet |-> NULL]
    ELSE [s \in SourceSet |-> outs[s].val]

CollectedResults(outs) ==
    [s \in SourceSet |-> IF outs[s].exc THEN NULL ELSE outs[s].val]

CollectedErrors(outs) ==
    LET F[i \in 0..Len(Sources)] ==
            IF i = 0 THEN <<>>
            ELSE IF outs[Sources[i]].exc
                 THEN Append(F[i - 1], Err("collector_failed", Sources[i], outs[Sources[i]].msg))
                 ELSE F[i - 1]
    IN  F[Len(Sources)]

TimeoutResultsSalvaging ==
    [s \in SourceSet |->
        IF task[s].st = "returned" THEN [exc |-> FALSE, msg |-> "", val |-> task[s].val]
        ELSE [exc |-> TRUE, msg |-> "timeout", val |-> NULL]]

\* line 222: [Exception("Timeout after 120.0s")] * len(tasks)
TimeoutResults == [s \in SourceSet |-> [exc |-> TRUE, msg |-> "timeout", val |-> NULL]]

\* what gather(return_exceptions=True) yields for the settled tasks
GatherResults(tasks) ==
    [s \in SourceSet |-> [exc |-> tasks[s].st = "raised",
                          msg |-> IF tasks[s].st = "raised" THEN "raised" ELSE "",
                          val |-> tasks[s].val]]

(***************************************************************************)
(* _detect_niche                                                           *)
(***************************************************************************)
DetectNicheBothLow(results) ==
    LET social_data == results["social"]
    IN  IF ~Truthy(social_data) THEN FALSE
        ELSE social_data.m30 < NICHE_MENTIONS_30D /\ social_data.mtot < NICHE_MENTIONS_TOTAL

\* lines 253-270
DetectNiche(results) ==
    LET social_data == results["social"]
    IN  IF ~Truthy(social_data) THEN FALSE
        ELSE social_data.m30 < NICHE_MENTIONS_30D \/ social_data.mtot < NICHE_MENTIONS_TOTAL

Mentions30 == {0, 49, 50, 51}
MentionsTotal == {0, 99, 100, 101}

NicheInputs ==
    {[s \in SourceSet |->
        IF s = "social" THEN soc ELSE IF s \in others THEN Data(s, 1, 0, 0) ELSE NULL] :
        soc \in {NULL} \cup {Data("social", 1, a, b) : a \in Mentions30, b \in MentionsTotal},
        others \in SUBSET (SourceSet \ {"social"})}

NicheCall ==
    /\ niche_out = "unset"
    /\ niche_out' = IF DetectNiche(niche_in) THEN "yes" ELSE "no"
    /\ UNCHANGED <<niche_in, pipelineVars, parseVars, termsVars, cacheVars, financeVars>>


(***************************************************************************)
(* Cache rows, _check_cache, _persist_result, _assemble_response           *)
(***************************************************************************)
NOANALYSIS == EmptyObject
NoAnalyses == [s \in SourceSet |-> NOANALYSIS]

SQLNULL == [kind |-> "sqlnull", src |-> "", pass |-> 0, m30 |-> 0, mtot |-> 0, errs |-> 0]

\* json.dumps(v) if v else None, per source column
DataColumn(v) == IF Truthy(v) THEN [v EXCEPT !.kind = "json"] ELSE SQLNULL

\* json.loads(raw) if raw else None
LoadColumn(raw) == IF raw = SQLNULL THEN NULL ELSE [raw EXCEPT !.kind = "data"]

\* lines 376-417, database.py line 21: created_at is the store's clock at the
\* insert, expires_at the request's clock plus the TTL
Row(analysis, psa, results, qea, terms, created_at) ==
    [phase |-> analysis.phase, confidence |-> analysis.confidence,
     reasoning |-> analysis.reasoning,
     data |-> [s \in SourceSet |-> DataColumn(results[s])],
     per_source_analyses_data |-> psa,
     query_expansion_applied |-> IF qea THEN 1 ELSE 0,
     expanded_terms_data |-> terms,
     created_at |-> created_at,
     expires_at |-> created_at + CACHE_TTL_HOURS]

NoResponse ==
    [phase |-> ABSENT, confidence |-> ABSENT, reasoning |-> <<>>,
     per_source_analyses |-> NoAnalyses, collector_data |-> AllNull,
     collectors_succeeded |-> 0, partial_data |-> FALSE, errors |-> <<>>,
     cache_hit |-> FALSE, query_expansion_applied |-> FALSE, expanded_terms |-> <<>>]

AssembleResponseFirstSourcePhase(analysis, psa, aerrs, results, cerrs, cache_hit, qea, terms) ==
    LET collectors_succeeded == Cardinality({s \in SourceSet : results[s] # NULL})
    IN  [phase |-> psa[Sources[1]].phase, confidence |-> analysis.confidence,
         reasoning |-> analysis.reasoning,
         per_source_analyses |-> psa, collector_data |-> results,
         collectors_succeeded |-> collectors_succeeded,
         partial_data |-> collectors_succeeded < 5,
         errors |-> cerrs \o aerrs,
         cache_hit |-> cache_hit,
         query_expansion_applied |-> qea, expanded_terms |-> terms]

PartialDataInclusive(n) == n <= 5

\* line 482
PartialData(n) == n < 5

\* lines 456-490
AssembleResponse(analysis, psa, aerrs, results, cerrs, cache_hit, qea, terms) ==
    LET collectors_succeeded == Cardinality({s \in SourceSet : results[s] # NULL})
    IN  [phase |-> analysis.phase, confidence |-> analysis.confidence,
         reasoning |-> analysis.reasoning,
         per_source_analyses |-> psa, collector_data |-> results,
         collectors_succeeded |-> collectors_succeeded,
         partial_data |-> PartialData(collectors_succeeded),
         errors |-> cerrs \o aerrs,
         cache_hit |-> cache_hit,
         query_expansion_applied |-> qea, expanded_terms |-> terms]

\* database.py line 9: rows are aiosqlite.Row (sqlite3.Row), which has no
\* get(): row.get(...) at hype_classifier.py line 161 raises AttributeError
RowSupportsGet == FALSE

Max(S) == CHOOSE x \in S : \A y \in S : y <= x

\* lines 126-131: WHERE expires_at > now
LiveRows(rows, t) == {i \in DOMAIN rows : rows[i].expires_at > t}

\* lines 129-130: ORDER BY created_at DESC LIMIT 1 (among rows of equal
\* created_at, the one inserted last)
MostRecent(rows, live) ==
    Max({i \in live : \A k \in live : rows[k].created_at <= rows[i].created_at})

\* lines 126-190 at clock t; `fails` is db.execute / fetchone raising
CheckCache(rows, t, fails) ==
    LET live == LiveRows(rows, t)
    IN  IF fails THEN [status |-> "error", response |-> NoResponse]
        ELSE IF live = {} THEN [status |-> "miss", response |-> NoResponse]
        ELSE LET row == rows[MostRecent(rows, live)]
                 results == [s \in SourceSet |-> LoadColumn(row.data[s])]
             IN  IF ~RowSupportsGet
                 THEN [status |-> "undecodable", response |-> NoResponse]
                 ELSE [status |-> "hit",
                       response |-> AssembleResponse(row, row.per_source_analyses_data,
                                        <<>>, results, <<>>, TRUE,
                                        row.query_expansion_applied # 0,
                                        row.expanded_terms_data)]

ValidAnalysis(phase, conf) ==
    [phase |-> [t |-> "str", v |-> 0, s |-> phase],
     confidence |-> [t |-> "num", v |-> conf, s |-> ""],
     has_reasoning |-> TRUE, reasoning |-> <<"x">>]

\* the row an earlier request inserted at hour created_at
OldRow(created_at) ==
    Row(ValidAnalysis("plateau", 60 + created_at), NoAnalyses,
        [s \in SourceSet |-> Data(s, 1, 50, 100)], FALSE, <<>>, created_at)

\* the hour at which the request starts
StartHour == CACHE_TTL_HOURS + 1

\* no lookup made
NoLookup == [status |-> "none", response |-> NoResponse]

\* tables the request may find: empty; one row expiring at this very hour;
\* one live row; an expired and a live row; two live rows
InitialDbs ==
    {<<>>, <<OldRow(1)>>, <<OldRow(2)>>, <<OldRow(0), OldRow(2)>>, <<OldRow(2), OldRow(3)>>}

\* hours that may pass before the next request for the keyword
Delays == {0, CACHE_TTL_HOURS - 1, CACHE_TTL_HOURS, CACHE_TTL_HOURS + 1}

(***************************************************************************)
(* The environment of one request.                                         *)
(***************************************************************************)
\* what a first-pass collect(keyword) may do: return its dict (the social
\* collector also its error response), or raise
CollectOutcomes(s) ==
    IF s = "social"
    THEN {[st |-> "returned", val |-> Data(s, 1, 0, 0)],
          [st |-> "returned", val |-> Data(s, 1, 50, 100)],
          [st |-> "returned", val |-> ErrorResponse(s)],
          [st |-> "raised", val |-> NULL]}
    ELSE {[st |-> "returned", val |-> Data(s, 1, 0, 0)],
          [st |-> "raised", val |-> NULL]}

Pending == [st |-> "pending", val |-> NULL]
Cancelled == [st |-> "cancelled", val |-> NULL]
Idle == [st |-> "idle", val |-> NULL]

GoodText == <<"{", "ph_peak", "cf_75", "r<", "x", ">", "}">>
SlopeText == <<"{", "ph_slope", "cf_100", "r<", "x", ">", "}">>
BogusText == <<"{", "ph_bogus", "cf_75", "r<", "x", ">", "}">>
InsufficientText == <<"{", "ph_insufficient", "cf_0", "r<", "x", ">", "}">>
TrueText == <<"{", "ph_peak", "cf_true", "r<", "x", ">", "}">>

\* the provider's answers to a per-source call
SourceReplies ==
    {[http_ok |-> FALSE, content |-> <<>>],
     [http_ok |-> TRUE, content |-> GoodText],
     [http_ok |-> TRUE, content |-> BogusText]}

\* the provider's answers to the synthesis call
SynthesisReplies ==
    {[http_ok |-> FALSE, content |-> <<>>],
     [http_ok |-> TRUE, content |-> Fenced(<<"F", "j", "w">>, SlopeText, <<"w", "F">>)],
     [http_ok |-> TRUE, content |-> GoodText],
     [http_ok |-> TRUE, content |-> TrueText],
     [http_ok |-> TRUE, content |-> BogusText],
     [http_ok |-> TRUE, content |-> InsufficientText],
     [http_ok |-> TRUE, content |-> <<"x">>]}

ZeroCalls ==
    [collect |-> [s \in SourceSet |-> 0], expand |-> 0, termgen |-> 0,
     analyze |-> 0, source_llm |-> [s \in SourceSet |-> 0], synth |-> 0, insert |-> 0]

\* the text an exception's message starts with: hype_classifier.py line 86
\* and deepseek.py line 91 both start "Insufficient data"; the other
\* messages are named after their error
MessageHead(error) ==
    IF error \in {"insufficient_collectors", "insufficient_analyses"}
    THEN "Insufficient data" ELSE error

NoOutcome == [kind |-> "none", error |-> "", message |-> <<>>, response |-> NoResponse]

\* an exception out of classify(); str(e) is its head followed by the text it
\* quotes
RaiseQuoting(error, quote) ==
    [kind |-> "error", error |-> error, message |-> <<MessageHead(error), quote>>,
     response |-> NoResponse]
Raise(error) == RaiseQuoting(error, "")
Return(response) == [kind |-> "result", error |-> "", message |-> <<>>, response |-> response]

\* analysis.py line 172: "Insufficient data" in error_message
MentionsInsufficientData(message) == \E i \in DOMAIN message : message[i] = "Insufficient data"

\* analysis.py lines 158-184: the endpoint's status for what classify() did
HttpStatus(o) ==
    IF o.kind = "result" THEN 200
    ELSE IF MentionsInsufficientData(o.message) THEN 503
    ELSE 500


(***************************************************************************)
(* classify(): the request's steps.                                        *)
(***************************************************************************)
\* classify() returns or raises and analyze_technology answers
Finish(o) ==
    /\ outcome' = o
    /\ http_status' = HttpStatus(o)
    /\ pc' = "done"

CacheCheckUnguarded ==
    /\ pc = "start"
    /\ \E fails \in BOOLEAN :
         LET c == CheckCache(db, now, fails)
         IN  /\ lookup' = c.status
             /\ IF c.status = "hit"
                THEN /\ Finish(Return(c.response))
                     /\ UNCHANGED <<task, calls>>
                ELSE IF c.status = "error"
                THEN /\ Finish(Raise("cache_error"))
                     /\ UNCHANGED <<task, calls>>
                ELSE /\ pc' = "collecting"
                     /\ task' = [s \in SourceSet |-> Pending]
                     /\ calls' = [calls EXCEPT !.collect = [s \in SourceSet |-> 1]]
                     /\ UNCHANGED <<outcome, http_status>>
    /\ UNCHANGED <<api_key, db, now, collector_results, collector_errors, first_pass, is_niche,
                   expanded_terms, query_expansion_applied, aidx, per_source_analyses,
                   analysis_errors, final_analysis, parseVars, nicheVars, termsVars, cacheVars, financeVars,
                   first_errors, termgen, rerun, relookup>>

\* lines 54-60 and 202-212: the cache lookup; on a miss the five collectors
\* are instantiated and their collect(keyword) tasks started
CacheCheck ==
    /\ pc = "start"
    /\ \E fails \in BOOLEAN :
         LET c == CheckCache(db, now, fails)
         IN  /\ lookup' = c.status
             /\ IF c.status = "hit"
                THEN /\ Finish(Return(c.response))
                     /\ UNCHANGED <<task, calls>>
                ELSE /\ pc' = "collecting"
                     /\ task' = [s \in SourceSet |-> Pending]
                     /\ calls' = [calls EXCEPT !.collect = [s \in SourceSet |-> 1]]
                     /\ UNCHANGED <<outcome, http_status>>
    /\ UNCHANGED <<api_key, db, now, collector_results, collector_errors, first_pass, is_niche,
                   expanded_terms, query_expansion_applied, aidx, per_source_analyses,
                   analysis_errors, final_analysis, parseVars, nicheVars, termsVars, cacheVars, financeVars,
                   first_errors, termgen, rerun, relookup>>

\* one collector's collect() returns or raises; the others keep running
CollectorSettle(s) ==
    /\ pc = "collecting"
    /\ task[s].st = "pending"
    /\ \E o \in CollectOutcomes(s) : task' = [task EXCEPT ![s] = o]
    /\ UNCHANGED <<pc, api_key, db, now, lookup, collector_results, collector_errors, first_pass,
                   is_niche, expanded_terms, query_expansion_applied, aidx,
                   per_source_analyses, analysis_errors, final_analysis, calls, outcome, http_status,
                   parseVars, nicheVars, termsVars, cacheVars, financeVars,
                   first_errors, termgen, rerun, relookup>>

\* lines 224-238 on the list `results`
Aggregate(outs) ==
    /\ collector_results' = CollectedResults(outs)
    /\ collector_errors' = CollectedErrors(outs)
    /\ first_pass' = CollectedResults(outs)
    /\ first_errors' = CollectedErrors(outs)
    /\ pc' = "niche_check"
    /\ UNCHANGED <<api_key, db, now, lookup, is_niche, expanded_terms, query_expansion_applied,
                   aidx, per_source_analyses, analysis_errors, final_analysis, calls,
                   outcome, http_status, parseVars, nicheVars, termsVars, cacheVars, financeVars, termgen, rerun, relookup>>

GatherResolveFirstCompleted ==
    /\ pc = "collecting"
    /\ \E s \in SourceSet : task[s].st # "pending"
    /\ task' = task
    /\ Aggregate(GatherResults(task))

\* lines 215-218: gather resolves once all five tasks have settled
GatherResolve ==
    /\ pc = "collecting"
    /\ \A s \in SourceSet : task[s].st # "pending"
    /\ task' = task
    /\ Aggregate(GatherResults(task))

\* lines 219-222: the deadline trips while a task is still running; wait_for
\* cancels the gather (and with it the running tasks) and every entry of
\* `results` is the timeout exception
BatchTimeout ==
    /\ pc = "collecting"
    /\ \E s \in SourceSet : task[s].st = "pending"
    /\ task' = [s \in SourceSet |-> IF task[s].st = "pending" THEN Cancelled ELSE task[s]]
    /\ Aggregate(TimeoutResults)

AlwaysExpand(niche) == "expand"

AfterNicheCheckWaits(niche) == "niche_check"

\* line 70: `if is_niche:` enters the expansion, otherwise the quorum check
AfterNicheCheck(niche) == IF niche THEN "expand" ELSE "threshold"

\* lines 66-70
NicheCheck ==
    /\ pc = "niche_check"
    /\ is_niche' = IF DetectNiche(collector_results) THEN "yes" ELSE "no"
    /\ pc' = AfterNicheCheck(DetectNiche(collector_results))
    /\ UNCHANGED <<api_key, db, now, lookup, task, collector_results, collector_errors,
                   first_pass, expanded_terms, query_expansion_applied, aidx,
                   per_source_analyses, analysis_errors, final_analysis, calls, outcome, http_status,
                   parseVars, nicheVars, termsVars, cacheVars, financeVars,
                   first_errors, termgen, rerun, relookup>>

(***************************************************************************)
(* generate_expanded_terms(keyword).  The analyzer of this source tree has *)
(* no such method; it is modelled from its specified behaviour and from    *)
(* the tests of tests/test_query_expansion.py: the "terms" list of the     *)
(* model's completion is post-filtered, and fewer than 3 valid terms is an *)
(* error ("Only n valid terms").                                           *)
(***************************************************************************)
MaxTerms == 5

\* the keyword of the tests
Keywords == {"plant cell culture"}

\* the denylist of overly generic words
GENERIC_TERMS == {"technology", "system", "innovation"}

\* what the model may put in its list: a term, a generic word, the keyword
\* echoed back, the keyword echoed back in another case
TermTexts == {"term1", "term2", "term3", "plant cell culture", "Plant Cell Culture"}
                 \cup GENERIC_TERMS

RawTermLists == UNION {[1..n -> TermTexts] : n \in 0..MaxTerms}

\* str.lower() on the texts of the model
Lower(t) == IF t = "Plant Cell Culture" THEN "plant cell culture" ELSE t

IsGeneric(t) == Lower(t) \in GENERIC_TERMS

EchoesKeywordExactCase(t, keyword) == t = keyword

\* the term is the original keyword, ignoring case
EchoesKeyword(t, keyword) == Lower(t) = Lower(keyword)

ValidTerm(t, keyword) == ~IsGeneric(t) /\ ~EchoesKeyword(t, keyword)

\* the terms that pass the filter, in the model's order
FilterTerms(terms, keyword) ==
    LET Keep(t) == ValidTerm(t, keyword) IN SelectSeq(terms, Keep)

\* at least 3 valid terms are required
EnoughTerms(valid) == Len(valid) >= 3

NoTerms == [st |-> "unset", terms |-> <<>>, n |-> 0]

\* the filtered list, or ValueError("Only n valid terms ...")
GenerateExpandedTerms(terms, keyword) ==
    LET valid == FilterTerms(terms, keyword)
    IN  IF EnoughTerms(valid)
        THEN [st |-> "returned", terms |-> valid, n |-> Len(valid)]
        ELSE [st |-> "raised", terms |-> <<>>, n |-> Len(valid)]

TermsCall ==
    /\ terms_out = NoTerms
    /\ terms_out' = GenerateExpandedTerms(raw_terms, term_keyword)
    /\ UNCHANGED <<term_keyword, raw_terms, pipelineVars, parseVars, nicheVars, cacheVars, financeVars>>

\* generate_expanded_terms(keyword): a list of 3 to 5 terms, or an error
ExpandedTermLists == {<<"t1", "t2", "t3">>}

RerunSourcesWithFinance == <<"finance", "social", "papers", "patents", "news">>

\* the sources of collectors_to_rerun, in dict order (lines 310-315)
RerunSources == <<"social", "papers", "patents", "news">>

\* whether the collector's collect() has the expanded_terms parameter
AcceptsExpandedTerms(s) == s \in {"papers", "patents", "news"}

ExpansionAppliedOnAttempt(terms) == TRUE

\* lines 63 and 79-80: query_expansion_applied is set when the term list
\* that came back is non-empty
ExpansionApplied(terms) == terms # <<>>

ExpansionFailedResultsCleared(results) == AllNull

\* line 307: the dict passed in is returned as it is
ExpansionFailedResults(results) == results

ExpansionFailedErrorsReplaced(errors) == <<Err("expansion_failed", "", "raised")>>

\* lines 303-307: f"Query expansion failed: {str(e)}" is appended to the list
\* passed in, which is returned
ExpansionFailedErrors(errors) == Append(errors, Err("expansion_failed", "", "raised"))

\* lines 296-307 and 73-80: the analyzer cannot be built (no API key) or the
\* term-generation call fails: the error is appended, the results and an empty
\* term list are returned, and classify() leaves query_expansion_applied False
ExpandTermsFailed ==
    /\ pc = "expand"
    /\ calls' = [calls EXCEPT !.expand = @ + 1,
                              !.termgen = IF api_key THEN @ + 1 ELSE @]
    /\ termgen' = "failed"
    /\ collector_results' = ExpansionFailedResults(collector_results)
    /\ collector_errors' = ExpansionFailedErrors(collector_errors)
    /\ expanded_terms' = <<>>
    /\ query_expansion_applied' = ExpansionApplied(<<>>)
    /\ pc' = "threshold"
    /\ UNCHANGED <<api_key, db, now, lookup, task, first_pass, first_errors, rerun, is_niche,
                   aidx, per_source_analyses, analysis_errors, final_analysis, outcome, http_status,
                   relookup, parseVars, nicheVars, termsVars, cacheVars, financeVars>>

\* a collect() call that failed to bind its arguments
RaisedTypeError == [st |-> "raised", val |-> NULL]

\* lines 296-321: the terms are generated; the list comprehension of line 318
\* calls collect(keyword, expanded_terms=...) on each collector in dict order,
\* and a collect() without that parameter raises TypeError there, outside any
\* try: out of _expand_query_and_rerun and out of classify(). The collectors
\* after it in the dict are not called.
ExpandTermsGenerated ==
    /\ pc = "expand"
    /\ api_key
    /\ \E terms \in ExpandedTermLists :
         LET rejecting == {i \in DOMAIN RerunSources : ~AcceptsExpandedTerms(RerunSources[i])}
             first == CHOOSE i \in rejecting : \A k \in rejecting : i <= k
             called == {RerunSources[i] : i \in 1..first}
         IN  /\ rejecting # {}
             /\ calls' = [calls EXCEPT !.expand = @ + 1, !.termgen = @ + 1,
                                       !.collect = [s \in SourceSet |->
                                                      IF s \in called THEN @[s] + 1 ELSE @[s]]]
             /\ termgen' = "generated"
             /\ rerun' = [s \in SourceSet |->
                            IF s = RerunSources[first] THEN RaisedTypeError ELSE rerun[s]]
             /\ Finish(Raise("type_error"))
    /\ UNCHANGED <<api_key, db, now, lookup, task, collector_results, collector_errors,
                   first_pass, first_errors, is_niche, expanded_terms,
                   query_expansion_applied, aidx, per_source_analyses, analysis_errors,
                   final_analysis, relookup, parseVars, nicheVars, termsVars, cacheVars, financeVars>>

QuorumMetOffByOne(results) ==
    Cardinality(Successful(results)) + 1 >= MINIMUM_SOURCES_REQUIRED

\* line 84, negated: len(successful) >= MINIMUM_SOURCES_REQUIRED
QuorumMet(results) == Cardinality(Successful(results)) >= MINIMUM_SOURCES_REQUIRED

\* lines 83-93: the quorum check, then the analyzer is built and analyze()
\* entered
ThresholdCheck ==
    /\ pc = "threshold"
    /\ IF ~QuorumMet(collector_results)
       THEN /\ Finish(Raise("insufficient_collectors"))
            /\ UNCHANGED <<calls, aidx>>
       ELSE IF ~api_key
       THEN /\ Finish(Raise("api_key_required"))
            /\ UNCHANGED <<calls, aidx>>
       ELSE /\ pc' = "analyze"
            /\ aidx' = 1
            /\ calls' = [calls EXCEPT !.analyze = @ + 1]
            /\ UNCHANGED <<outcome, http_status>>
    /\ UNCHANGED <<api_key, db, now, lookup, task, collector_results, collector_errors,
                   first_pass, is_niche, expanded_terms, query_expansion_applied,
                   per_source_analyses, analysis_errors, final_analysis,
                   parseVars, nicheVars, termsVars, cacheVars, financeVars,
                   first_errors, termgen, rerun, relookup>>

\* deepseek.py line 87: f"Failed to analyze {source_name}: {str(e)}"
AnalyzeError(source_name, r) == Err("analyze_failed", source_name, r.err)

AbortOnFailure(i, ok) == IF ok THEN i + 1 ELSE Len(Sources) + 1

\* deepseek.py lines 77, 83-87: the except clause is inside the loop, which
\* goes on to the next source whether the call returned or raised
NextSource(i, ok) == i + 1

\* deepseek.py lines 77-87: one turn of the loop over source_names
AnalyzeSource ==
    /\ pc = "analyze"
    /\ aidx <= Len(Sources)
    /\ LET source_name == Sources[aidx]
           source_data == collector_results[source_name]
       IN  IF ~Truthy(source_data)
           THEN /\ analysis_errors' = Append(analysis_errors, Err("missing_data", source_name, ""))
                /\ aidx' = aidx + 1
                /\ UNCHANGED <<per_source_analyses, calls>>
           ELSE \E reply \in SourceReplies :
                  LET r == CallDeepseek(reply)
                  IN  /\ calls' = [calls EXCEPT !.source_llm[source_name] = @ + 1]
                      /\ aidx' = NextSource(aidx, r.ok)
                      /\ IF r.ok
                         THEN /\ per_source_analyses' =
                                    [per_source_analyses EXCEPT ![source_name] = r.val]
                              /\ UNCHANGED analysis_errors
                         ELSE /\ analysis_errors' =
                                    Append(analysis_errors, AnalyzeError(source_name, r))
                              /\ UNCHANGED per_source_analyses
    /\ UNCHANGED <<pc, api_key, db, now, lookup, task, collector_results, collector_errors,
                   first_pass, is_niche, expanded_terms, query_expansion_applied,
                   final_analysis, outcome, http_status, parseVars, nicheVars, termsVars, cacheVars, financeVars,
                   first_errors, termgen, rerun, relookup>>

Analysed == {s \in SourceSet : per_source_analyses[s] # NOANALYSIS}

EnoughAnalysesOffByOne(n) == n + 1 >= MIN_SOURCE_ANALYSES

\* deepseek.py line 90, negated: len(per_source_analyses) >= 3
EnoughAnalyses(n) == n >= MIN_SOURCE_ANALYSES

\* deepseek.py lines 89-91
AnalyzeInsufficient ==
    /\ pc = "analyze"
    /\ aidx > Len(Sources)
    /\ ~EnoughAnalyses(Cardinality(Analysed))
    /\ Finish(Raise("insufficient_analyses"))
    /\ UNCHANGED <<api_key, db, now, lookup, task, collector_results, collector_errors,
                   first_pass, is_niche, expanded_terms, query_expansion_applied, aidx,
                   per_source_analyses, analysis_errors, final_analysis, calls,
                   parseVars, nicheVars, termsVars, cacheVars, financeVars,
                   first_errors, termgen, rerun, relookup>>

\* deepseek.py lines 93-101: the synthesis call
Synthesize ==
    /\ pc = "analyze"
    /\ aidx > Len(Sources)
    /\ EnoughAnalyses(Cardinality(Analysed))
    /\ calls' = [calls EXCEPT !.synth = @ + 1]
    /\ \E reply \in SynthesisReplies :
         LET r == CallDeepseek(reply)
         IN  IF r.ok
             THEN /\ final_analysis' = r.val
                  /\ pc' = "persist"
                  /\ UNCHANGED <<outcome, http_status>>
             ELSE /\ Finish(RaiseQuoting("synthesis_failed", r.quote))
                  /\ UNCHANGED final_analysis
    /\ UNCHANGED <<api_key, db, now, lookup, task, collector_results, collector_errors,
                   first_pass, is_niche, expanded_terms, query_expansion_applied, aidx,
                   per_source_analyses, analysis_errors, parseVars, nicheVars, termsVars, cacheVars, financeVars,
                   first_errors, termgen, rerun, relookup>>

AfterInsertFailureReturns(response) == Return(response)

\* lines 96-100 and 419-420: an exception of db.execute or db.commit is not
\* caught; it leaves _persist_result and classify()
AfterInsertFailure(response) == Raise("persist_failed")

\* lines 95-113: the insert and, when it succeeds, the response
Persist ==
    /\ pc = "persist"
    /\ calls' = [calls EXCEPT !.insert = @ + 1]
    /\ \E stored \in BOOLEAN :
         IF stored
         THEN /\ db' = Append(db, Row(final_analysis, per_source_analyses, collector_results,
                                      query_expansion_applied, expanded_terms, now))
              /\ Finish(Return(AssembleResponse(final_analysis, per_source_analyses,
                            analysis_errors, collector_results, collector_errors, FALSE,
                            query_expansion_applied, expanded_terms)))
         ELSE /\ Finish(AfterInsertFailure(
                            AssembleResponse(final_analysis, per_source_analyses,
                                analysis_errors, collector_results, collector_errors, FALSE,
                                query_expansion_applied, expanded_terms)))
              /\ UNCHANGED db
    /\ UNCHANGED <<api_key, now, lookup, task, collector_results, collector_errors,
                   first_pass, is_niche, expanded_terms, query_expansion_applied, aidx,
                   per_source_analyses, analysis_errors, final_analysis,
                   parseVars, nicheVars, termsVars, cacheVars, financeVars,
                   first_errors, termgen, rerun, relookup>>

\* lines 55 and 126-190: the _check_cache call of the next classify() for the
\* keyword, made some hours after this request has returned its result
LookupAgain ==
    /\ pc = "done"
    /\ outcome.kind = "result"
    /\ relookup = NoLookup
    /\ \E d \in Delays, fails \in BOOLEAN :
         /\ now' = now + d
         /\ relookup' = CheckCache(db, now', fails)
    /\ UNCHANGED <<pc, api_key, db, lookup, task, collector_results, collector_errors,
                   first_pass, first_errors, termgen, rerun, is_niche, expanded_terms,
                   query_expansion_applied, aidx, per_source_analyses, analysis_errors,
                   final_analysis, calls, outcome, http_status, parseVars, nicheVars, termsVars, cacheVars, financeVars>>

(***************************************************************************)
(* Specifications.                                                         *)
(***************************************************************************)
PipelineIdle ==
    /\ pc = "idle"
    /\ api_key = FALSE
    /\ db = <<>>
    /\ now = 0
    /\ lookup = "none"
    /\ task = [s \in SourceSet |-> Idle]
    /\ collector_results = AllNull
    /\ collector_errors = <<>>
    /\ first_pass = AllNull
    /\ first_errors = <<>>
    /\ termgen = "none"
    /\ rerun = [s \in SourceSet |-> Idle]
    /\ is_niche = "unset"
    /\ expanded_terms = <<>>
    /\ query_expansion_applied = FALSE
    /\ aidx = 0
    /\ per_source_analyses = NoAnalyses
    /\ analysis_errors = <<>>
    /\ final_analysis = NOANALYSIS
    /\ calls = ZeroCalls
    /\ outcome = NoOutcome
    /\ http_status = 0
    /\ relookup = NoLookup

ParseIdle == content = <<>> /\ core = <<>> /\ wrap = "bare" /\ parsed = NoParse
NicheIdle == niche_in = AllNull /\ niche_out = "unset"
TermsIdle == term_keyword = "" /\ raw_terms = <<>> /\ terms_out = NoTerms
CacheIdle == requests = <<>> /\ analyses = <<>> /\ writer = 0
FinanceIdle == finance = <<>> /\ ticker_cache = <<>>

Init ==
    /\ pc = "start"
    /\ api_key \in BOOLEAN
    /\ db \in InitialDbs
    /\ now = StartHour
    /\ lookup = "none"
    /\ task = [s \in SourceSet |-> Idle]
    /\ collector_results = AllNull
    /\ collector_errors = <<>>
    /\ first_pass = AllNull
    /\ first_errors = <<>>
    /\ termgen = "none"
    /\ rerun = [s \in SourceSet |-> Idle]
    /\ is_niche = "unset"
    /\ expanded_terms = <<>>
    /\ query_expansion_applied = FALSE
    /\ aidx = 0
    /\ per_source_analyses = NoAnalyses
    /\ analysis_errors = <<>>
    /\ final_analysis = NOANALYSIS
    /\ calls = ZeroCalls
    /\ outcome = NoOutcome
    /\ http_status = 0
    /\ relookup = NoLookup
    /\ ParseIdle
    /\ NicheIdle
    /\ TermsIdle
    /\ CacheIdle
    /\ FinanceIdle

Next ==
    \/ CacheCheck
    \/ \E s \in SourceSet : CollectorSettle(s)
    \/ GatherResolve
    \/ BatchTimeout
    \/ NicheCheck
    \/ ExpandTermsFailed
    \/ ExpandTermsGenerated
    \/ ThresholdCheck
    \/ AnalyzeSource
    \/ AnalyzeInsufficient
    \/ Synthesize
    \/ Persist
    \/ LookupAgain

Spec == Init /\ [][Next]_vars

\* The event loop runs every continuation that is ready, and every external
\* call is bounded: the HTTP clients have timeouts and the collector batch is
\* under asyncio.wait_for, so a step that can be taken is eventually taken.
SpecLive == Init /\ [][Next]_vars /\ WF_vars(Next)

InitParse ==
    /\ PipelineIdle
    /\ NicheIdle
    /\ TermsIdle
    /\ CacheIdle
    /\ FinanceIdle
    /\ core \in JsonTexts
    /\ \/ wrap = "bare" /\ content = core
       \/ wrap = "fenced"
          /\ \E o \in FenceOpen, c \in FenceClose : content = Fenced(o, core, c)
       \/ wrap = "prose_fenced"
          /\ content = <<"x", "w">> \o Fenced(<<"F", "j", "w">>, core, <<"w", "F">>)
       \/ wrap = "prose_blocks"
          /\ content = <<"x", "w">> \o Fenced(<<"F", "j", "w">>, core, <<"w", "F">>)
                           \o <<"w", "x", "w">> \o SecondBlock
    /\ parsed = NoParse
NextParse == ParseCall
SpecParse == InitParse /\ [][NextParse]_vars

InitNiche ==
    /\ PipelineIdle
    /\ ParseIdle
    /\ TermsIdle
    /\ CacheIdle
    /\ FinanceIdle
    /\ niche_in \in NicheInputs
    /\ niche_out = "unset"
NextNiche == NicheCall
SpecNiche == InitNiche /\ [][NextNiche]_vars

InitTerms ==
    /\ PipelineIdle
    /\ ParseIdle
    /\ NicheIdle
    /\ term_keyword \in Keywords
    /\ raw_terms \in RawTermLists
    /\ terms_out = NoTerms
    /\ CacheIdle
    /\ FinanceIdle
NextTerms == TermsCall
SpecTerms == InitTerms /\ [][NextTerms]_vars


(***************************************************************************)
(* SpecCache: several requests of the endpoint in flight on one event      *)
(* loop, each with its own connection (get_db) to the one table.  A        *)
(* request touches the table twice: the SELECT of _check_cache and the     *)
(* INSERT + commit of _persist_result; everything between them is reduced  *)
(* to its outcome.  SQLite admits one writing connection at a time.        *)
(***************************************************************************)
MaxRequests == 3

RequestIds == 1..MaxRequests
CacheKeywords == {"k1", "k2"}

\* a row of the table as far as the cache discipline goes: its AUTOINCREMENT
\* id, its keyword and (for the properties) the request that inserted it
StoredRow(id, keyword, by) == [id |-> id, keyword |-> keyword, by |-> by]

\* lines 126-190 on concurrent requests: a row of the keyword is found and
\* decoded, or the lookup is a miss
Hit(table, keyword) ==
    /\ \E i \in DOMAIN table : table[i].keyword = keyword
    /\ RowSupportsGet

UpsertRow(table, row) ==
    IF \E i \in DOMAIN table : table[i].keyword = row.keyword
    THEN [i \in DOMAIN table |->
            IF table[i].keyword = row.keyword THEN row ELSE table[i]]
    ELSE Append(table, row)

\* lines 393-420: INSERT INTO analyses (...) VALUES (...), a new row with the
\* next id; the table has no UNIQUE constraint on keyword
InsertRow(table, row) == Append(table, row)

\* lines 54-57: the lookup; `seen` is the number of rows committed by then
ReqLookup(r) ==
    /\ requests[r].st = "start"
    /\ requests' = [requests EXCEPT
                      ![r].st = IF Hit(analyses, requests[r].keyword)
                                THEN "done_hit" ELSE "collecting",
                      ![r].seen = Len(analyses)]
    /\ UNCHANGED <<analyses, writer>>

\* lines 59-93 end in a raise (quorum, TypeError, LLM failure)
ReqFails(r) ==
    /\ requests[r].st = "collecting"
    /\ requests' = [requests EXCEPT ![r].st = "done_error"]
    /\ UNCHANGED <<analyses, writer>>

\* lines 59-93 end with the final analysis
ReqAnalysed(r) ==
    /\ requests[r].st = "collecting"
    /\ requests' = [requests EXCEPT ![r].st = "persist"]
    /\ UNCHANGED <<analyses, writer>>

\* line 419: db.execute(INSERT) opens the connection's write transaction
ReqExecute(r) ==
    /\ requests[r].st = "persist"
    /\ writer = 0
    /\ writer' = r
    /\ requests' = [requests EXCEPT ![r].st = "inserted"]
    /\ UNCHANGED analyses

\* line 419 raises (the database stayed locked by another connection, or
\* another sqlite error): no row, the failure leaves classify()
ReqExecuteFails(r) ==
    /\ requests[r].st = "persist"
    /\ requests' = [requests EXCEPT ![r].st = "done_error"]
    /\ UNCHANGED <<analyses, writer>>

\* line 420: db.commit() makes the row visible to the other connections
ReqCommit(r) ==
    /\ requests[r].st = "inserted"
    /\ analyses' = InsertRow(analyses,
                             StoredRow(Len(analyses) + 1, requests[r].keyword, r))
    /\ writer' = 0
    /\ requests' = [requests EXCEPT ![r].st = "done_result"]

\* line 420 raises: get_db closes the connection, which rolls back
ReqCommitFails(r) ==
    /\ requests[r].st = "inserted"
    /\ writer' = 0
    /\ requests' = [requests EXCEPT ![r].st = "done_error"]
    /\ UNCHANGED analyses

InitCache ==
    /\ PipelineIdle
    /\ ParseIdle
    /\ NicheIdle
    /\ TermsIdle
    /\ FinanceIdle
    /\ requests \in [RequestIds -> [st : {"start"}, keyword : CacheKeywords, seen : {0}]]
    /\ analyses \in {<<>>, <<StoredRow(1, "k1", 0)>>}
    /\ writer = 0

NextCache ==
    \E r \in RequestIds :
        /\ \/ ReqLookup(r)
           \/ ReqFails(r)
           \/ ReqAnalysed(r)
           \/ ReqExecute(r)
           \/ ReqExecuteFails(r)
           \/ ReqCommit(r)
           \/ ReqCommitFails(r)
        /\ UNCHANGED <<pipelineVars, parseVars, nicheVars, termsVars, financeVars>>

SpecCache == InitCache /\ [][NextCache]_vars


(***************************************************************************)
(* SpecFinance: the FinanceCollector of each of several requests.          *)
(* _run_collectors builds a new FinanceCollector per call; its             *)
(* _ticker_cache is a dict made in __init__.  collect() asks               *)
(* _get_relevant_tickers, which answers from that dict or asks the LLM.    *)
(***************************************************************************)
\* class attribute FALLBACK_ETFS (finance.py:26), returned but never changed
FALLBACK_ETFS == <<"QQQ", "XLK">>

\* what the ticker-discovery call may do: a valid list, another valid list,
\* or anything that ends in the fallback (no API key, HTTP error, timeout,
\* unparsable or empty list)
TickerReplies == {"ibm", "nvda", "failed"}

TickersOf(reply) ==
    CASE reply = "ibm" -> <<"IBM">>
      [] reply = "nvda" -> <<"NVDA">>
      [] OTHER -> FALLBACK_ETFS

EmptyTickerCache == [k \in CacheKeywords |-> <<>>]

NoCollector == [st |-> "none", keyword |-> "", reply |-> "none", tickers |-> <<>>]

\* a dict of the class, one for all instances: the first instance that has
\* the keyword answers
ClassLevelCache(caches, r) ==
    [k \in CacheKeywords |->
        IF \E q \in DOMAIN caches : caches[q][k] # <<>>
        THEN caches[CHOOSE q \in DOMAIN caches : caches[q][k] # <<>>][k]
        ELSE <<>>]

\* self._ticker_cache of the instance of request r
InstanceCache(caches, r) == caches[r]

\* hype_classifier.py:208 and finance.py:28-31: FinanceCollector() with an
\* empty cache
FinConstruct(r) ==
    /\ finance[r].st = "none"
    /\ \E k \in CacheKeywords :
         finance' = [finance EXCEPT ![r].st = "ready", ![r].keyword = k]
    /\ ticker_cache' = [ticker_cache EXCEPT ![r] = EmptyTickerCache]

\* finance.py:177-179: `if keyword in self._ticker_cache: return ...`
FinLookup(r) ==
    /\ finance[r].st = "ready"
    /\ LET cached == InstanceCache(ticker_cache, r)[finance[r].keyword]
       IN  finance' = IF cached # <<>>
                      THEN [finance EXCEPT ![r].st = "done", ![r].tickers = cached]
                      ELSE [finance EXCEPT ![r].st = "asking"]
    /\ UNCHANGED ticker_cache

\* finance.py:181-271: the ticker-discovery call; a validated list is stored
\* in the instance's cache (line 248), every failure returns FALLBACK_ETFS
FinReply(r) ==
    /\ finance[r].st = "asking"
    /\ \E reply \in TickerReplies :
         /\ finance' = [finance EXCEPT ![r].st = "done", ![r].reply = reply,
                                       ![r].tickers = TickersOf(reply)]
         /\ ticker_cache' =
                IF reply # "failed"
                THEN [ticker_cache EXCEPT ![r][finance[r].keyword] = TickersOf(reply)]
                ELSE ticker_cache

InitFinance ==
    /\ PipelineIdle
    /\ ParseIdle
    /\ NicheIdle
    /\ TermsIdle
    /\ CacheIdle
    /\ finance = [r \in RequestIds |-> NoCollector]
    /\ ticker_cache = [r \in RequestIds |-> EmptyTickerCache]

NextFinance ==
    \E r \in RequestIds :
        /\ \/ FinConstruct(r)
           \/ FinLookup(r)
           \/ FinReply(r)
        /\ UNCHANGED <<pipelineVars, parseVars, nicheVars, termsVars, cacheVars>>

SpecFinance == InitFinance /\ [][NextFinance]_vars


(***************************************************************************)
(* Properties.                                                             *)
(***************************************************************************)
NonNull(results) == {s \in SourceSet : results[s] # NULL}

NoLLMCallYet ==
    /\ calls.analyze = 0
    /\ calls.synth = 0
    /\ \A s \in SourceSet : calls.source_llm[s] = 0

\* the request went through the quorum check of classify() (it missed the
\* cache, and _expand_query_and_rerun, if entered, returned)
QuorumChecked ==
    \/ pc \in {"analyze", "persist"}
    \/ pc = "done" /\ lookup # "hit" /\ outcome.error # "type_error"

\* C1: in a request that missed the cache, while fewer than 3 of the 5
\* collector results are non-null no LLM analysis call has been made and no
\* insert has been executed; and once the quorum check has run on such
\* results the request has ended with the insufficient-collectors error.
C1_QuorumInvariant ==
    (lookup # "hit" /\ Cardinality(NonNull(collector_results)) < 3)
        => /\ NoLLMCallYet
           /\ calls.insert = 0
           /\ QuorumChecked =>
                (pc = "done" /\ outcome = Raise("insufficient_collectors"))

\* a niche request whose expansion returned (term generation failed) and
\* which then failed the quorum check with 2 of 5
C1_Witness ==
    /\ pc = "done"
    /\ calls.expand = 1
    /\ Cardinality(NonNull(collector_results)) = 2
    /\ outcome = Raise("insufficient_collectors")

\* C2: every returned result has collectors_succeeded equal to the number
\* of non-null entries of its collector_data, and partial_data true exactly
\* when that number is below 5.
C2_PartialDataFlag ==
    outcome.kind = "result"
        => /\ outcome.response.collectors_succeeded
                = Cardinality(NonNull(outcome.response.collector_data))
           /\ outcome.response.partial_data
                = (outcome.response.collectors_succeeded < 5)

C2_Witness ==
    /\ outcome.kind = "result"
    /\ outcome.response.collectors_succeeded = 4
    /\ outcome.response.partial_data

AllSettled == \A s \in SourceSet : task[s].st \in {"returned", "raised"}

FailuresOf(errs, s) ==
    {i \in DOMAIN errs : errs[i].kind = "collector_failed" /\ errs[i].source = s}

\* C3: when _run_collectors returns without the deadline having tripped,
\* the map has the five keys, a key is null exactly when its collector
\* raised, every other key holds what its collector returned, and the error
\* list holds exactly one "collector failed" entry per null key and nothing
\* else.
C3_FailureIsolation ==
    (pc = "niche_check" /\ AllSettled)
        => /\ DOMAIN collector_results = SourceSet
           /\ \A s \in SourceSet :
                /\ (collector_results[s] = NULL) <=> (task[s].st = "raised")
                /\ task[s].st = "returned" => collector_results[s] = task[s].val
                /\ Cardinality(FailuresOf(collector_errors, s))
                     = IF collector_results[s] = NULL THEN 1 ELSE 0
           /\ Len(collector_errors)
                = Cardinality(SourceSet \ NonNull(collector_results))

C3_Witness ==
    /\ pc = "niche_check"
    /\ AllSettled
    /\ task["papers"].st = "raised"
    /\ task["finance"].st = "raised"
    /\ collector_results["social"] = Data("social", 1, 50, 100)
    /\ collector_results["news"] # NULL

DeadlineTripped == \E s \in SourceSet : task[s].st = "cancelled"

\* C4: when _run_collectors returns after the deadline tripped, all five
\* results are null, also those of collectors that had finished, and the
\* error list is the five timeout failures in source order; a timeout
\* failure never appears beside a real result.
C4_TimeoutAllOrNothing ==
    /\ (pc = "niche_check" /\ DeadlineTripped)
         => /\ collector_results = AllNull
            /\ collector_errors
                 = [i \in 1..5 |-> Err("collector_failed", Sources[i], "timeout")]
    /\ (\E i \in DOMAIN collector_errors : collector_errors[i].msg = "timeout")
         => first_pass = AllNull

C4_Witness ==
    /\ pc = "niche_check"
    /\ DeadlineTripped
    /\ task["social"].st = "returned"
    /\ task["papers"].st = "raised"
    /\ task["news"].st = "returned"


\* the JSON texts of the valid analysis objects: all three members, a phase
\* of the enum, a confidence that is a JSON number in [0,1]
ValidTexts ==
    {<<"{", p, c, "r<">> \o r \o <<">", "}">> :
        p \in {"ph_peak", "ph_slope"}, c \in {"cf_0", "cf_75", "cf_100"},
        r \in SeqsUpTo({"x", "F", "j"}, MaxReason)}

\* C5: _call_deepseek returns an analysis only if the content is JSON with
\* phase, confidence and reasoning, the phase one of the five canonical
\* values and the confidence a number in [0,1].
C5_ReturnsOnlyValid ==
    parsed.ok
        => /\ parsed.val.has_reasoning
           /\ parsed.val.phase.t = "str"
           /\ parsed.val.phase.s \in {"innovation_trigger", "peak", "trough", "slope", "plateau"}
           /\ parsed.val.confidence.t = "num"
           /\ 0 <= parsed.val.confidence.v
           /\ parsed.val.confidence.v <= 100

\* C6: a fence, with or without the json tag, around the text of a valid
\* analysis object, whatever prose follows the closing fence, parses to the
\* result of the bare text.
C6_FenceTransparent ==
    (parsed # NoParse /\ wrap = "fenced" /\ core \in ValidTexts)
        => parsed = ParseContent(core)

FailedSources ==
    {analysis_errors[i].source :
        i \in {k \in DOMAIN analysis_errors : analysis_errors[k].kind = "analyze_failed"}}

AnalyzeEnded == calls.analyze = 1 /\ pc \in {"persist", "done"}

\* C7: the synthesis call is issued at most once, only after the loop over
\* the five sources has ended and with at least 3 per-source analyses; an
\* analyze() that ended with fewer than 3 raised the insufficient-data
\* error without a synthesis call.
C7_SynthesisAfterQuorum ==
    /\ calls.synth <= 1
    /\ calls.synth = 1 => (aidx > 5 /\ Cardinality(Analysed) >= 3)
    /\ (AnalyzeEnded /\ Cardinality(Analysed) < 3)
         => (calls.synth = 0 /\ outcome = Raise("insufficient_analyses"))

C7_Witness ==
    /\ calls.synth = 1
    /\ Cardinality(Analysed) = 3
    /\ Cardinality(FailedSources) = 2
    /\ pc = "persist"

\* C8: a failed per-source call does not end analyze(): when analyze() has
\* ended every source with data has had its one call, each failed source is
\* absent from per_source_analyses and named by an error, the insufficient
\* error is raised only with fewer than 3 analyses, and a returned result
\* carries those errors and analyses.
C8_SourceFailureTolerated ==
    /\ AnalyzeEnded
         => /\ \A s \in SourceSet :
                 calls.source_llm[s] = IF collector_results[s] # NULL THEN 1 ELSE 0
            /\ \A s \in FailedSources : per_source_analyses[s] = NOANALYSIS
            /\ \A s \in NonNull(collector_results) \ Analysed : s \in FailedSources
            /\ outcome.error = "insufficient_analyses" => Cardinality(Analysed) < 3
    /\ (outcome.kind = "result" /\ ~outcome.response.cache_hit)
         => /\ outcome.response.per_source_analyses = per_source_analyses
            /\ \A s \in FailedSources :
                 \E i \in DOMAIN outcome.response.errors :
                    /\ outcome.response.errors[i].kind = "analyze_failed"
                    /\ outcome.response.errors[i].source = s

\* the social call failed, the other four succeeded, and a result came back
C8_Witness ==
    /\ outcome.kind = "result"
    /\ FailedSources = {"social"}
    /\ Analysed = {"papers", "patents", "news", "finance"}
    /\ outcome.response.phase.s = "slope"

\* C9: _detect_niche is true exactly when the social entry is non-null and
\* mentions_30d < 50 or mentions_total < 100, whatever the other entries.
C9_NicheBySocialOnly ==
    niche_out # "unset"
        => ((niche_out = "yes")
              <=> /\ niche_in["social"] # NULL
                  /\ niche_in["social"].m30 < 50 \/ niche_in["social"].mtot < 100)

C9_Witness ==
    /\ niche_out = "yes"
    /\ niche_in["social"].m30 = 50
    /\ niche_in["social"].mtot = 99
    /\ niche_in["papers"] = NULL
    /\ niche_in["news"] # NULL

NicheFirstPass ==
    /\ first_pass["social"] # NULL
    /\ first_pass["social"].m30 < 50 \/ first_pass["social"].mtot < 100

\* C10: _expand_query_and_rerun is entered at most once per request and only
\* when the first-pass results are niche; a request that is not niche makes
\* no term-generation call and no second collect(); no collector is
\* invoked more than twice.
C10_ExpansionOnlyIfNiche ==
    /\ calls.expand <= 1
    /\ calls.termgen <= calls.expand
    /\ (calls.expand = 1 \/ pc = "expand") => NicheFirstPass
    /\ (pc \notin {"start", "collecting", "niche_check"} /\ lookup # "hit" /\ ~NicheFirstPass)
         => /\ calls.expand = 0
            /\ calls.termgen = 0
            /\ \A s \in SourceSet : calls.collect[s] = 1
    /\ \A s \in SourceSet : calls.collect[s] <= 2

\* a mainstream request that reached its result without any expansion
C10_Witness ==
    /\ outcome.kind = "result"
    /\ ~NicheFirstPass
    /\ first_pass["social"] # NULL
    /\ calls.expand = 0

\* the term generation of the expansion failed (or its analyzer could not be
\* built) and _expand_query_and_rerun has returned
TermsFailed == termgen = "failed"

\* C11: when term generation fails, the results returned are the results
\* passed in, no collector is run a second time, and the term list returned
\* is empty.
C11_TermFailureKeepsResults ==
    TermsFailed
        => /\ collector_results = first_pass
           /\ expanded_terms = <<>>
           /\ ~query_expansion_applied
           /\ \A s \in SourceSet : calls.collect[s] = 1 /\ rerun[s] = Idle

\* the term-generation call was made and failed; two first-pass results stand
C11_Witness ==
    /\ TermsFailed
    /\ calls.termgen = 1
    /\ pc = "threshold"
    /\ first_pass["papers"] # NULL
    /\ first_pass["finance"] = NULL

\* C12 as stated: when term generation fails, the error list returned is the
\* error list passed in, nothing added.
C12_ErrorsUnchanged ==
    TermsFailed => collector_errors = first_errors

\* C12 amended: when term generation fails, the error list returned is the
\* list passed in, its entries kept in order, with exactly one entry
\* appended: the "Query expansion failed" message.
C12_ErrorsKeptPlusOne ==
    TermsFailed
        => /\ Len(collector_errors) = Len(first_errors) + 1
           /\ SubSeq(collector_errors, 1, Len(first_errors)) = first_errors
           /\ collector_errors[Len(collector_errors)].kind = "expansion_failed"
           /\ \A i \in 1..Len(first_errors) : collector_errors[i].kind # "expansion_failed"

\* two collectors had failed in the first pass before the expansion failed
C12_Witness ==
    /\ TermsFailed
    /\ Len(first_errors) = 2
    /\ Len(collector_errors) = 3

ExpandedSources == {"social", "papers", "patents", "news"}

\* _expand_query_and_rerun handed a (results, errors, terms) triple back to
\* classify()
ExpansionReturned == pc # "expand" /\ calls.expand = 1 /\ outcome.error # "type_error"

\* C13: when the terms have been generated and the re-run batch has not
\* timed out, _expand_query_and_rerun returns, and in what it returns every
\* re-run source whose re-run succeeded holds the re-run's result.
C13_RerunOverwrites ==
    termgen = "generated"
        => /\ ExpansionReturned
           /\ \A s \in ExpandedSources :
                rerun[s].st = "returned" => collector_results[s] = rerun[s].val

\* C14: for every re-run source whose re-run failed, _expand_query_and_rerun
\* returns with that source's entry as it was before the expansion and with
\* an error naming the source in the error list.
C14_FailedRerunKeepsEntry ==
    \A s \in ExpandedSources :
        rerun[s].st = "raised"
            => /\ ExpansionReturned
               /\ collector_results[s] = first_pass[s]
               /\ \E i \in DOMAIN collector_errors :
                    /\ collector_errors[i].kind = "rerun_failed"
                    /\ collector_errors[i].source = s

\* C15: the finance collector is invoked at most once per request and never
\* by the expansion, and once the expansion has been entered the finance
\* entry is still the first-pass one.
C15_FinanceNeverRerun ==
    /\ calls.collect["finance"] <= 1
    /\ rerun["finance"] = Idle
    /\ calls.expand = 1 => collector_results["finance"] = first_pass["finance"]

\* an expansion that generated its terms and started its re-runs, after a
\* first pass in which finance had returned
C15_Witness ==
    /\ termgen = "generated"
    /\ calls.collect["social"] = 2
    /\ calls.collect["finance"] = 1
    /\ collector_results["finance"] = Data("finance", 1, 0, 0)

FirstPassStarted == \E s \in SourceSet : calls.collect[s] > 0 \/ task[s].st # "idle"

ExpansionStarted ==
    \/ calls.expand > 0
    \/ calls.termgen > 0
    \/ termgen # "none"
    \/ \E s \in SourceSet : calls.collect[s] > 1 \/ rerun[s] # Idle

\* C17: no collector starts before the cache lookup has returned a miss; the
\* niche check runs only after all five first-pass collectors have settled
\* or the batch has timed out; no expansion starts before the niche check;
\* the LLM analysis starts only after the first pass and the niche check;
\* a row is inserted only after the LLM analysis has succeeded, and a
\* failing request inserts no row.
C17_StageOrder ==
    /\ FirstPassStarted => lookup \in {"miss", "error", "undecodable"}
    /\ is_niche # "unset"
         => \A s \in SourceSet : task[s].st \in {"returned", "raised", "cancelled"}
    /\ ExpansionStarted => is_niche = "yes"
    /\ ~NoLLMCallYet => (is_niche # "unset" /\ pc \notin {"expand", "threshold"})
    /\ calls.insert > 0 => (calls.synth = 1 /\ final_analysis # NOANALYSIS)
    /\ db \notin InitialDbs => (calls.insert = 1 /\ final_analysis # NOANALYSIS)
    /\ outcome.kind = "error" => db \in InitialDbs

\* a request that went through every stage, the expansion included, and
\* inserted its row
C17_Witness ==
    /\ outcome.kind = "result"
    /\ lookup = "miss"
    /\ calls.expand = 1
    /\ calls.synth = 1
    /\ db \notin InitialDbs

\* the lookup query of this request found a non-expired row (no insert has
\* been made, so db is what the lookup saw)
LiveRowAtLookup ==
    /\ pc # "start"
    /\ lookup # "error"
    /\ calls.insert = 0
    /\ LiveRows(db, now) # {}

\* C18: when the lookup finds a non-expired row, classify() returns a result
\* built from that row with cache_hit true, and the request runs no
\* collector, makes no LLM call and no insert.
C18_CacheHitServed ==
    LiveRowAtLookup
        => /\ lookup = "hit"
           /\ pc = "done"
           /\ outcome.kind = "result"
           /\ outcome.response.cache_hit
           /\ calls = ZeroCalls
           /\ \A s \in SourceSet : task[s] = Idle

\* C19: an error raised while looking the row up or decoding it is a cache
\* miss: the request goes on with the full collection and never ends with
\* the lookup's error.
C19_LookupFailureIsMiss ==
    lookup \in {"error", "undecodable"}
        => /\ outcome.error # "cache_error"
           /\ \A s \in SourceSet : calls.collect[s] >= 1 /\ task[s].st # "idle"

\* the lookup query failed and the request still returned a fresh result
C19_Witness ==
    /\ lookup = "error"
    /\ outcome.kind = "result"
    /\ ~outcome.response.cache_hit
    /\ outcome.response.collectors_succeeded = 5

\* C20: after a fresh result has been persisted, the next lookup of the
\* keyword (before the row expires, the query itself succeeding) yields a
\* result with cache_hit true and the phase, confidence, reasoning,
\* per-source analyses and collector data of the fresh result.
C20_CacheRoundTrip ==
    (/\ relookup.status \notin {"none", "error"}
     /\ ~outcome.response.cache_hit
     /\ now < db[Len(db)].expires_at)
        => /\ relookup.status = "hit"
           /\ relookup.response.cache_hit
           /\ relookup.response.phase = outcome.response.phase
           /\ relookup.response.confidence = outcome.response.confidence
           /\ relookup.response.reasoning = outcome.response.reasoning
           /\ relookup.response.per_source_analyses = outcome.response.per_source_analyses
           /\ relookup.response.collector_data = outcome.response.collector_data

\* the request's lookup ran its query (no insert has been made since, so db
\* and now are what the lookup saw)
LookupRan == pc # "start" /\ lookup # "error" /\ calls.insert = 0

\* C21: a row whose expires_at is at or before the clock is never served,
\* the lookup is then a miss followed by the full collection; and when live
\* rows exist the request is served from the most recently created one.
C21_ExpiryAndRecency ==
    LookupRan
        => IF LiveRows(db, now) = {}
           THEN /\ lookup = "miss"
                /\ \A s \in SourceSet : calls.collect[s] >= 1
           ELSE /\ lookup = "hit"
                /\ outcome.kind = "result"
                /\ outcome.response.cache_hit
                /\ outcome.response.confidence
                     = db[MostRecent(db, LiveRows(db, now))].confidence

\* the insert of this request was attempted and left the table as it was
InsertFailed == calls.insert = 1 /\ pc = "done" /\ db \in InitialDbs

\* C22: when the insert fails after a successful analysis, classify()
\* returns no result, the endpoint answers 500, and the insert is attempted
\* once only.
C22_PersistFailureSurfaces ==
    /\ calls.insert <= 1
    /\ InsertFailed
         => /\ final_analysis # NOANALYSIS
            /\ outcome.kind = "error"
            /\ outcome.error = "persist_failed"
            /\ http_status = 500

C22_Witness ==
    /\ InsertFailed
    /\ calls.synth = 1
    /\ http_status = 500
    /\ Cardinality(Analysed) = 5

\* C23: a failed request is answered 503 when the failure is one of the two
\* insufficient-data conditions (collector quorum, per-source analysis
\* quorum) and 500 for every other failure.
C23_StatusByCategory ==
    (pc = "done" /\ outcome.kind = "error")
        => http_status
             = IF outcome.error \in {"insufficient_collectors", "insufficient_analyses"}
               THEN 503 ELSE 500

\* C24: a failed quorum check is answered 503 and a failed LLM analysis
\* (too few per-source analyses, or a failed synthesis) is answered 500.
C24_ThresholdVsAnalyze ==
    pc = "done"
        => /\ outcome.error = "insufficient_collectors" => http_status = 503
           /\ outcome.error \in {"insufficient_analyses", "synthesis_failed"}
                => http_status = 500

\* phase one of the five values and confidence within [0,1] (hundredths; a
\* JSON true counts as the number 1)
PhaseAndConfidenceValid(r) ==
    /\ r.phase.t = "str"
    /\ r.phase.s \in {"innovation_trigger", "peak", "trough", "slope", "plateau"}
    /\ r.confidence.t \in {"num", "bool"}
    /\ 0 <= r.confidence.v
    /\ r.confidence.v <= 100

\* C25: every result returned and every row of the table has a phase of the
\* five-value enum and a confidence within [0,1].
C25_PhaseAndConfidence ==
    /\ outcome.kind = "result" => PhaseAndConfidenceValid(outcome.response)
    /\ relookup.status = "hit" => PhaseAndConfidenceValid(relookup.response)
    /\ \A i \in DOMAIN db : PhaseAndConfidenceValid(db[i])

\* a fresh result, and its row, from a synthesis that answered confidence true
C25_Witness ==
    /\ outcome.kind = "result"
    /\ outcome.response.confidence.t = "bool"
    /\ db \notin InitialDbs
    /\ db[Len(db)].phase.s = "peak"

\* a returned fresh result of a request whose five collectors all returned
\* and whose five per-source calls all succeeded
AllSucceeded ==
    /\ outcome.kind = "result"
    /\ lookup # "hit"
    /\ \A s \in SourceSet : task[s].st = "returned"
    /\ Analysed = SourceSet

OneRowWritten ==
    /\ calls.insert = 1
    /\ Len(db) >= 1
    /\ SubSeq(db, 1, Len(db) - 1) \in InitialDbs

\* C26 as stated: such a result has the phase the synthesis returned,
\* collectors_succeeded 5, partial_data false, no errors, cache_hit false,
\* and exactly one row was written.
C26_AllSucceed ==
    AllSucceeded
        => /\ outcome.response.phase = final_analysis.phase
           /\ outcome.response.collectors_succeeded = 5
           /\ ~outcome.response.partial_data
           /\ outcome.response.errors = <<>>
           /\ ~outcome.response.cache_hit
           /\ OneRowWritten

\* C26 amended: the same, but the errors are empty only when no expansion
\* was attempted; when the first pass was niche and term generation failed
\* they hold exactly the one "Query expansion failed" entry.
C26_AllSucceedAmended ==
    AllSucceeded
        => /\ outcome.response.phase = final_analysis.phase
           /\ outcome.response.collectors_succeeded = 5
           /\ ~outcome.response.partial_data
           /\ outcome.response.errors
                = IF termgen = "failed" THEN <<Err("expansion_failed", "", "raised")>>
                  ELSE <<>>
           /\ ~outcome.response.cache_hit
           /\ OneRowWritten

\* the mainstream scenario: per-source phases peak, synthesis slope
C26_Witness ==
    /\ AllSucceeded
    /\ termgen = "none"
    /\ outcome.response.phase.s = "slope"
    /\ outcome.response.errors = <<>>

\* C28: in every fresh result query_expansion_applied is true exactly when
\* expanded_terms is non-empty, expanded_terms is the list the expansion
\* step returned, and a request that was not niche has false and [].
C28_ExpansionMetadata ==
    (outcome.kind = "result" /\ ~outcome.response.cache_hit)
        => /\ outcome.response.query_expansion_applied
                <=> outcome.response.expanded_terms # <<>>
           /\ outcome.response.expanded_terms = expanded_terms
           /\ ~NicheFirstPass
                => /\ ~outcome.response.query_expansion_applied
                   /\ outcome.response.expanded_terms = <<>>

\* a niche request whose expansion returned no terms, and which got a result
C28_Witness ==
    /\ outcome.kind = "result"
    /\ NicheFirstPass
    /\ calls.expand = 1
    /\ ~outcome.response.query_expansion_applied

\* the terms of the model's list that the filter is to drop, by position
DroppedAt(i) ==
    \/ raw_terms[i] \in GENERIC_TERMS
    \/ Lower(raw_terms[i]) = Lower(term_keyword)

Remaining == {i \in DOMAIN raw_terms : ~DroppedAt(i)}

\* C27: generate_expanded_terms drops every term of the generic denylist and
\* every term equal to the keyword ignoring case; it fails when fewer than 3
\* terms remain, and otherwise returns a list of at least 3 items holding none
\* of the dropped terms (and every term that was not dropped, in order).
C27_TermFilter ==
    terms_out # NoTerms =>
        /\ Cardinality(Remaining) < 3 =>
             terms_out.st = "raised" /\ terms_out.n = Cardinality(Remaining)
        /\ Cardinality(Remaining) >= 3 =>
             /\ terms_out.st = "returned"
             /\ Len(terms_out.terms) >= 3
             /\ Len(terms_out.terms) = Cardinality(Remaining)
             /\ \A i \in DOMAIN raw_terms :
                  DroppedAt(i) =>
                      \A k \in DOMAIN terms_out.terms : terms_out.terms[k] # raw_terms[i]
             /\ \A i \in Remaining :
                  \E k \in DOMAIN terms_out.terms : terms_out.terms[k] = raw_terms[i]

\* the keyword came back in another case next to a generic word, and three
\* terms were left
C27_Witness ==
    /\ terms_out.st = "returned"
    /\ \E i \in DOMAIN raw_terms :
         raw_terms[i] # term_keyword /\ Lower(raw_terms[i]) = Lower(term_keyword)
    /\ \E i \in DOMAIN raw_terms : raw_terms[i] \in GENERIC_TERMS
    /\ Len(terms_out.terms) = 3

\* C29: every request eventually ends, with exactly one terminal outcome: a
\* result (answered 200), an insufficient-data failure (503) or another
\* failure (500); the outcome, once there, is never replaced by another one.
C29_OneTerminalOutcome ==
    /\ <>(pc = "done")
    /\ [](pc = "done" =>
            /\ outcome.kind \in {"result", "error"}
            /\ http_status \in {200, 503, 500}
            /\ outcome.kind = "result" <=> http_status = 200)
    /\ [](pc # "done" => outcome.kind = "none" /\ http_status = 0)
    /\ [][outcome.kind # "none" => UNCHANGED <<outcome, http_status, pc>>]_vars

\* a request that went through the whole pipeline and returned its result
C29_Witness ==
    /\ pc = "done"
    /\ lookup = "miss"
    /\ calls.insert = 1
    /\ outcome.kind = "result"
    /\ http_status = 200

\* the rows a request has put into the table
RowsBy(r) == {i \in DOMAIN analyses : analyses[i].by = r}

\* C30: under every interleaving of concurrent requests the table only grows
\* by appended rows (no committed row is changed or removed); a request that
\* returned a fresh result has inserted exactly one row and every other
\* request none, so two concurrent cache-miss requests for one keyword that
\* both return have a row each.
C30_AppendOnly ==
    /\ [](\A r \in DOMAIN requests :
            Cardinality(RowsBy(r)) = IF requests[r].st = "done_result" THEN 1 ELSE 0)
    /\ [][/\ Len(analyses') >= Len(analyses)
          /\ SubSeq(analyses', 1, Len(analyses)) = analyses]_vars

\* two requests for one keyword looked the cache up before either had
\* committed, and both returned: the table holds a row of each next to the
\* row that was there before
C30_Witness ==
    \E r1, r2 \in DOMAIN requests :
        /\ r1 # r2
        /\ requests[r1].keyword = requests[r2].keyword
        /\ requests[r1].st = "done_result" /\ requests[r2].st = "done_result"
        /\ requests[r1].seen = 1 /\ requests[r2].seen = 1
        /\ Len(analyses) = 3
        /\ analyses[1].keyword = requests[r1].keyword

\* C31: collector instances share no mutable state: the tickers a request's
\* FinanceCollector works with are those of its own ticker-discovery call
\* (or the fallback), never an entry another instance cached, and an
\* instance's cache holds nothing but what that instance stored.
C31_InstanceIsolation ==
    \A r \in DOMAIN finance :
        /\ finance[r].st = "done" =>
             /\ finance[r].reply # "none"
             /\ finance[r].tickers = TickersOf(finance[r].reply)
        /\ \A k \in CacheKeywords :
             ticker_cache[r][k] # <<>> =>
                 /\ finance[r].st = "done"
                 /\ k = finance[r].keyword
                 /\ ticker_cache[r][k] = TickersOf(finance[r].reply)

\* two requests for one keyword, the first has cached its tickers, and the
\* second has got the tickers of its own call, which are others
C31_Witness ==
    \E r1, r2 \in DOMAIN finance :
        /\ r1 # r2
        /\ finance[r1].st = "done" /\ finance[r2].st = "done"
        /\ finance[r1].keyword = finance[r2].keyword
        /\ ticker_cache[r1][finance[r1].keyword] = <<"IBM">>
        /\ finance[r2].tickers = <<"NVDA">>

\* C32: every kind of contract violation fails with its own error text: not
\* valid JSON with 'Failed to parse DeepSeek response', a missing field with
\* 'missing required fields', a bad phase with 'Invalid phase', a confidence
\* that is no number in [0,1] with 'Confidence must be float between 0-1'.
C32_NamedViolations ==
    (parsed # NoParse /\ ~parsed.ok) =>
        /\ ~JsonLoads(StripMarkdown(content)).ok =>
               ParseErrorText(parsed.err) = "Failed to parse DeepSeek response"
        /\ parsed.err = "missing_fields" =>
               ParseErrorText(parsed.err) = "DeepSeek response missing required fields"
        /\ parsed.err = "invalid_phase" => ParseErrorText(parsed.err) = "Invalid phase"
        /\ parsed.err = "confidence_range" =>
               ParseErrorText(parsed.err) = "Confidence must be float between 0-1"

\* C33: with prose before the first fence and several fenced blocks, the
\* first block is extracted and parsed and its analysis returned.
C33_FirstBlockParsed ==
    (parsed # NoParse /\ wrap = "prose_blocks" /\ core \in ValidTexts
        /\ \A i \in DOMAIN core : core[i] # "F")
        => parsed = ParseContent(core)

\* the per-source loop of analyze() has ended
LoopEnded == calls.analyze = 1 /\ aidx > Len(Sources)

\* C34: analyze() issues exactly one per-source LLM call for each source
\* whose collector result is non-null and none for a null source: the
\* sources submitted are those the quorum check counted, and one analyze()
\* makes at most 6 LLM calls.
C34_OneCallPerPresentSource ==
    /\ \A s \in SourceSet :
         /\ calls.source_llm[s] <= 1
         /\ collector_results[s] = NULL => calls.source_llm[s] = 0
    /\ LoopEnded =>
         /\ {s \in SourceSet : calls.source_llm[s] = 1} = NonNull(collector_results)
         /\ Cardinality({s \in SourceSet : calls.source_llm[s] = 1}) + calls.synth <= 6
    /\ calls.synth <= 1

\* analyze() ran to its end on three present and two null sources
C34_Witness ==
    /\ LoopEnded
    /\ calls.synth = 1
    /\ Cardinality(NonNull(collector_results)) = 3
    /\ Cardinality({s \in SourceSet : calls.source_llm[s] = 1}) = 3

\* C35: a collector result counts toward the quorum exactly when it is
\* non-null, whatever it holds: the quorum error is raised only with fewer
\* than 3 non-null results, an error response (all zero, errors populated)
\* is counted in collectors_succeeded and is submitted to the LLM analysis.
C35_NonNullCounts ==
    /\ outcome = Raise("insufficient_collectors")
         => Cardinality(NonNull(collector_results)) < 3
    /\ calls.analyze = 1 => Cardinality(NonNull(collector_results)) >= 3
    /\ (outcome.kind = "result" /\ lookup # "hit")
         => outcome.response.collectors_succeeded
                = Cardinality(NonNull(collector_results))
    /\ LoopEnded =>
         \A s \in SourceSet :
             collector_results[s] = ErrorResponse(s) => calls.source_llm[s] = 1

\* the social collector's error response was the third of three non-null
\* results, and the request returned a result counting it
C35_Witness ==
    /\ collector_results["social"] = ErrorResponse("social")
    /\ Cardinality(NonNull(collector_results)) = 3
    /\ outcome.kind = "result"
    /\ outcome.response.collectors_succeeded = 3
    /\ calls.source_llm["social"] = 1

\* _expand_query_and_rerun was entered and the request has moved on
ExpansionOver == calls.expand = 1 /\ pc # "expand"

C37_TimeoutEndsInsufficient ==
    /\ [](DeadlineTripped =>
            /\ calls.expand = 0 /\ calls.termgen = 0 /\ termgen = "none"
            /\ \A s \in SourceSet : rerun[s] = Idle /\ calls.collect[s] = 1
            /\ is_niche # "yes"
            /\ (pc # "collecting" => collector_results = AllNull)
            /\ NoLLMCallYet)
    /\ (DeadlineTripped ~>
            (/\ pc = "done"
             /\ outcome = Raise("insufficient_collectors")
             /\ http_status = 503))

\* a request whose batch timed out with some collectors already finished
\* has ended with the insufficient-data failure
C37_Witness ==
    /\ DeadlineTripped
    /\ \E s \in SourceSet : task[s].st = "returned"
    /\ pc = "done"
    /\ is_niche = "no"
    /\ outcome = Raise("insufficient_collectors")
    /\ http_status = 503

\* C38: _expand_query_and_rerun never raises into classify(): whatever the
\* analyzer construction, the term generation and the re-run collectors do,
\* it hands back a (results, errors, terms) triple.
C38_ExpansionNeverRaises ==
    /\ outcome.error # "type_error"
    /\ ExpansionOver => pc # "done" \/ QuorumChecked

\* C39: the result rebuilt from a cache row has the null pattern of the
\* collector data, the collectors_succeeded, partial_data,
\* query_expansion_applied and expanded_terms of the fresh result returned
\* by the request that wrote the row.
C39_RebuiltEqualsFresh ==
    (/\ relookup.status \notin {"none", "error"}
     /\ outcome.kind = "result"
     /\ ~outcome.response.cache_hit
     /\ now < db[Len(db)].expires_at)
        => /\ relookup.status = "hit"
           /\ NonNull(relookup.response.collector_data)
                = NonNull(outcome.response.collector_data)
           /\ relookup.response.collectors_succeeded
                = outcome.response.collectors_succeeded
           /\ relookup.response.partial_data = outcome.response.partial_data
           /\ relookup.response.query_expansion_applied
                = outcome.response.query_expansion_applied
           /\ relookup.response.expanded_terms = outcome.response.expanded_terms

====
